---- MODULE Spec2Model ----
(***************************************************************************)
(* Idempotent ingestion of healthos_backend/app.py.                        *)
(*                                                                         *)
(* POST /ingest/healthkit: the framework validates the JSON body against   *)
(* IngestPayload, ingest_healthkit checks the source and _insert_event     *)
(* records the event if its id is new.  Requests run concurrently; each    *)
(* round trip to the database (SELECT by primary key, INSERT, COMMIT) is   *)
(* one step, and the table ingest_events is shared.                        *)
(***************************************************************************)
EXTENDS Integers, Sequences, FiniteSets, TLC

(* ---------------------------- bounds ---------------------------------- *)
NumRequests == 2
MaxClock == 1
MaxWorkouts == 1
MaxMetrics == 1

Requests == 1..NumRequests
EventIds == {"e1", "e2"}

(* ------------------------ schema (pydantic) --------------------------- *)
Source == {"healthkit", "manual"}

DailyMetricType == {"steps", "active_energy_kcal", "sleep_hours", "body_weight_lbs"}

None == "None"

Without(f, k) == [x \in DOMAIN f \ {k} |-> f[x]]
With(f, k, v) == [x \in (DOMAIN f) \cup {k} |-> IF x = k THEN v ELSE f[x]]
Get(f, k, default) == IF k \in DOMAIN f THEN f[k] ELSE default

SeqsUpTo(S, n) == UNION {[1..k -> S] : k \in 0..n}

\* class WorkoutDTO: field names, required ones, defaults of the optional ones
WorkoutFields == {"source_workout_id", "activity_type", "started_at", "ended_at",
                  "duration_sec", "active_energy_kcal", "distance_m"}
WorkoutRequired == {"source_workout_id", "activity_type", "started_at"}

WorkoutErrors(w) ==
    {<<"extra_forbidden", k>> : k \in (DOMAIN w) \ WorkoutFields}
      \cup {<<"missing", k>> : k \in WorkoutRequired \ (DOMAIN w)}

\* Optional[...] = None: an optional field holds <<>> for None, <<v>> for v
Optional(w, k) == IF k \in DOMAIN w THEN <<w[k]>> ELSE <<>>

WorkoutDTO(w) ==
    [k \in WorkoutFields |-> IF k \in WorkoutRequired THEN w[k] ELSE Optional(w, k)]

\* class DailyMetricDTO
MetricFields == {"date", "metric_type", "value", "unit"}

DailyMetricErrors(m) ==
    {<<"extra_forbidden", k>> : k \in (DOMAIN m) \ MetricFields}
      \cup {<<"missing", k>> : k \in MetricFields \ (DOMAIN m)}
      \cup (IF "metric_type" \in DOMAIN m /\ m["metric_type"] \notin DailyMetricType
            THEN {<<"enum", "metric_type">>} ELSE {})

DailyMetricDTO(m) == [k \in MetricFields |-> m[k]]

\* class IngestPayload
PayloadFields == {"schema_version", "event_id", "user_id", "source", "sent_at",
                  "device_id", "workouts", "daily_metrics"}
PayloadRequired == {"event_id", "sent_at", "device_id"}

Range(s) == {s[i] : i \in DOMAIN s}

\* a validator with metric_type: str and extra fields ignored
LaxValidationErrors(body) ==
    {<<"missing", k>> : k \in PayloadRequired \ (DOMAIN body)}
      \cup (IF "source" \in DOMAIN body /\ body["source"] \notin Source
            THEN {<<"enum", "source">>} ELSE {})

ValidationErrors(body) ==
    {<<"extra_forbidden", k>> : k \in (DOMAIN body) \ PayloadFields}
      \cup {<<"missing", k>> : k \in PayloadRequired \ (DOMAIN body)}
      \cup (IF "source" \in DOMAIN body /\ body["source"] \notin Source
            THEN {<<"enum", "source">>} ELSE {})
      \cup UNION {WorkoutErrors(w) : w \in Range(Get(body, "workouts", <<>>))}
      \cup UNION {DailyMetricErrors(m) : m \in Range(Get(body, "daily_metrics", <<>>))}

\* the validated model: defaults filled in, nested records validated
IngestPayload(body) ==
    [schema_version |-> Get(body, "schema_version", 1),
     event_id       |-> body["event_id"],
     user_id        |-> Get(body, "user_id", "matt"),
     source         |-> Get(body, "source", "healthkit"),
     sent_at        |-> body["sent_at"],
     device_id      |-> body["device_id"],
     workouts       |-> [i \in DOMAIN Get(body, "workouts", <<>>) |->
                            WorkoutDTO(body["workouts"][i])],
     daily_metrics  |-> [i \in DOMAIN Get(body, "daily_metrics", <<>>) |->
                            DailyMetricDTO(body["daily_metrics"][i])]]

(* ------------------------- request bodies ----------------------------- *)
SampleWorkout == [source_workout_id |-> "w1", activity_type |-> "run",
                  started_at |-> "2024-01-01T06:00:00Z"]
SampleMetric == [date |-> "2024-01-01", metric_type |-> "steps",
                 value |-> 5000, unit |-> "count"]

Body(e, ws, ms) ==
    [event_id |-> e, source |-> "healthkit", sent_at |-> "2024-01-01T00:00:00Z",
     device_id |-> "d1", workouts |-> ws, daily_metrics |-> ms]

WellFormedBodies ==
    {Body(e, ws, ms) : e \in EventIds,
                       ws \in SeqsUpTo({SampleWorkout}, MaxWorkouts),
                       ms \in SeqsUpTo({SampleMetric}, MaxMetrics)}

BaseBody == Body("e1", <<>>, <<SampleMetric>>)

\* a workout with its optional fields given
TimedWorkout == [source_workout_id |-> "w2", activity_type |-> "ride",
                 started_at |-> "2024-01-01T07:00:00Z",
                 ended_at |-> "2024-01-01T08:00:00Z", duration_sec |-> 3600,
                 active_energy_kcal |-> 450, distance_m |-> 20000]

\* two workouts and three daily metrics, no field left to its default
FullBody ==
    [schema_version |-> 2, event_id |-> "e2", user_id |-> "ann",
     source |-> "healthkit", sent_at |-> "2024-01-02T00:00:00Z", device_id |-> "d2",
     workouts |-> <<SampleWorkout, TimedWorkout>>,
     daily_metrics |-> <<SampleMetric,
                         [date |-> "2024-01-01", metric_type |-> "sleep_hours",
                          value |-> 7, unit |-> "h"],
                         [date |-> "2024-01-01", metric_type |-> "body_weight_lbs",
                          value |-> 180, unit |-> "lb"]>>]

\* one deviation of the base body each: defaults, the other source, and the
\* ways a body can fail validation
VariantBodies ==
    {FullBody,
     Without(BaseBody, "source"),
     With(BaseBody, "source", "manual"),
     With(BaseBody, "source", "garmin"),
     Without(BaseBody, "event_id"),
     With(BaseBody, "unknown_field", "x"),
     With(BaseBody, "daily_metrics",
          <<With(SampleMetric, "metric_type", "blood_pressure")>>)}

Bodies == WellFormedBodies \cup VariantBodies

(* ----------------------------- storage -------------------------------- *)
Str(n) == CASE n = 0 -> "0" [] n = 1 -> "1" [] n = 2 -> "2" [] OTHER -> "n"

\* json.dumps(payload.model_dump()): an object is written as its members in
\* declaration order, None as null
JsonNull == <<"null">>
JsonValue(v) == <<"value", v>>
\* a dump that writes 0 for None
JsonOptionalZero(o) == IF o = <<>> THEN JsonValue(0) ELSE JsonValue(o[1])

JsonOptional(o) == IF o = <<>> THEN JsonNull ELSE JsonValue(o[1])

DumpWorkout(w) ==
    <<  <<"source_workout_id", JsonValue(w.source_workout_id)>>,
        <<"activity_type", JsonValue(w.activity_type)>>,
        <<"started_at", JsonValue(w.started_at)>>,
        <<"ended_at", JsonOptional(w.ended_at)>>,
        <<"duration_sec", JsonOptional(w.duration_sec)>>,
        <<"active_energy_kcal", JsonOptional(w.active_energy_kcal)>>,
        <<"distance_m", JsonOptional(w.distance_m)>>  >>

DumpMetric(m) ==
    <<  <<"date", JsonValue(m.date)>>,
        <<"metric_type", JsonValue(m.metric_type)>>,
        <<"value", JsonValue(m.value)>>,
        <<"unit", JsonValue(m.unit)>>  >>

Dumps(p) ==
    <<  <<"schema_version", JsonValue(p.schema_version)>>,
        <<"event_id", JsonValue(p.event_id)>>,
        <<"user_id", JsonValue(p.user_id)>>,
        <<"source", JsonValue(p.source)>>,
        <<"sent_at", JsonValue(p.sent_at)>>,
        <<"device_id", JsonValue(p.device_id)>>,
        <<"workouts", [i \in DOMAIN p.workouts |-> DumpWorkout(p.workouts[i])]>>,
        <<"daily_metrics", [i \in DOMAIN p.daily_metrics |-> DumpMetric(p.daily_metrics[i])]>>  >>

\* a row with the columns filled from the wrong fields
IngestEventMixedUp(p, event_type, now) ==
    [id             |-> p.event_id,
     user_id        |-> p.device_id,
     source         |-> p.source,
     schema_version |-> Str(p.schema_version),
     event_type     |-> p.source,
     received_at    |-> now,
     payload_json   |-> Dumps(p)]

\* class IngestEvent: one row of ingest_events
IngestEvent(p, event_type, now) ==
    [id             |-> p.event_id,
     user_id        |-> p.user_id,
     source         |-> p.source,
     schema_version |-> Str(p.schema_version),
     event_type     |-> event_type,
     received_at    |-> now,
     payload_json   |-> Dumps(p)]

\* a table without the unique index: no key ever conflicts
NoPrimaryKey(rows, id) == FALSE

\* the unique index on a column every row shares: any row conflicts
UniqueOnSharedColumn(rows, id) == rows # {}

\* id = Column(String, primary_key=True): the unique index on id; a key
\* conflicts with the rows that carry it
PrimaryKey(rows, id) == \E row \in rows : row.id = id

\* db.get(IngestEvent, id): the rows with that id, among the committed ones
Lookup(rows, id) == {row \in rows : row.id = id}

(* ------------------------------ state --------------------------------- *)
VARIABLES
    table,      \* committed rows of ingest_events
    txn,        \* txn[r]: rows request r has inserted and not yet committed
    clock,      \* datetime.now(timezone.utc)
    pc,         \* pc[r]: where request r is
    body,       \* body[r]: the JSON body request r was sent with
    db,         \* db[r]: the request's session: "none", "open", "closed"
    existing,   \* existing[r]: what db.get returned: "unset", "found", None
    ev,         \* ev[r]: the IngestEvent the request constructed, or None
    ret,        \* ret[r]: what _insert_event returned ("unset" before)
    raised,     \* raised[r]: the exception that ended the request, or None
    response    \* response[r]: the HTTP response, status_code 0 before it

vars == <<table, txn, clock, pc, body, db, existing, ev, ret, raised, response>>

NoResponse == [status_code |-> 0, content |-> [status |-> "none"]]

Init ==
    /\ table = {}
    /\ txn = [r \in Requests |-> {}]
    /\ clock = 0
    /\ pc = [r \in Requests |-> "idle"]
    /\ body = [r \in Requests |-> <<>>]
    /\ db = [r \in Requests |-> "none"]
    /\ existing = [r \in Requests |-> "unset"]
    /\ ev = [r \in Requests |-> None]
    /\ ret = [r \in Requests |-> "unset"]
    /\ raised = [r \in Requests |-> None]
    /\ response = [r \in Requests |-> NoResponse]

Payload(r) == IngestPayload(body[r])

(* ---------------------------- responses ------------------------------- *)
UnprocessableEntity(errors) ==
    [status_code |-> 422, content |-> [status |-> "invalid", detail |-> errors]]

SourceError ==
    [status_code |-> 200,
     content |-> [status |-> "error", message |-> "source must be healthkit"]]

\* a response with the two counts taken from each other's list
OkResponseSwapped(p) ==
    [status_code |-> 200,
     content |-> [status |-> "ok",
                  stored_event_id |-> p.event_id,
                  workouts |-> Len(p.daily_metrics),
                  metrics |-> Len(p.workouts)]]

OkResponse(p) ==
    [status_code |-> 200,
     content |-> [status |-> "ok",
                  stored_event_id |-> p.event_id,
                  workouts |-> Len(p.workouts),
                  metrics |-> Len(p.daily_metrics)]]

InternalServerError ==
    [status_code |-> 500, content |-> [status |-> "Internal Server Error"]]

(* ----------------------------- actions -------------------------------- *)
\* a route that records whatever source the body names
ingest_any_source(r, b) ==
    /\ pc[r] = "idle"
    /\ \A q \in 1..(r - 1) : pc[q] # "idle"
    /\ body' = [body EXCEPT ![r] = b]
    /\ IF ValidationErrors(b) # {}
       THEN /\ raised' = [raised EXCEPT ![r] = "RequestValidationError"]
            /\ response' = [response EXCEPT ![r] = UnprocessableEntity(ValidationErrors(b))]
            /\ pc' = [pc EXCEPT ![r] = "done"]
            /\ db' = db
       ELSE /\ db' = [db EXCEPT ![r] = "open"]
            /\ pc' = [pc EXCEPT ![r] = "get"]
            /\ UNCHANGED <<raised, response>>
    /\ UNCHANGED <<table, txn, clock, existing, ev, ret>>

\* the request arrives: body validation, the source check of
\* ingest_healthkit, and the session _insert_event opens
ingest_healthkit(r, b) ==
    /\ pc[r] = "idle"
    /\ \A q \in 1..(r - 1) : pc[q] # "idle"
    /\ body' = [body EXCEPT ![r] = b]
    /\ IF ValidationErrors(b) # {}
       THEN /\ raised' = [raised EXCEPT ![r] = "RequestValidationError"]
            /\ response' = [response EXCEPT ![r] = UnprocessableEntity(ValidationErrors(b))]
            /\ pc' = [pc EXCEPT ![r] = "done"]
            /\ db' = db
       ELSE IF IngestPayload(b).source # "healthkit"
       THEN /\ response' = [response EXCEPT ![r] = SourceError]
            /\ pc' = [pc EXCEPT ![r] = "done"]
            /\ UNCHANGED <<raised, db>>
       ELSE /\ db' = [db EXCEPT ![r] = "open"]
            /\ pc' = [pc EXCEPT ![r] = "get"]
            /\ UNCHANGED <<raised, response>>
    /\ UNCHANGED <<table, txn, clock, existing, ev, ret>>

\* _insert_event reporting what it did
ReturnsOutcome(r) ==
    /\ ret' = [ret EXCEPT ![r] = IF pc[r] = "get" THEN "already_recorded"
                                                  ELSE "newly_recorded"]
    /\ db' = [db EXCEPT ![r] = "closed"]
    /\ response' = [response EXCEPT ![r] = OkResponse(Payload(r))]
    /\ pc' = [pc EXCEPT ![r] = "done"]

\* _insert_event returns normally; ingest_healthkit answers
Return(r) ==
    /\ ret' = [ret EXCEPT ![r] = None]
    /\ db' = [db EXCEPT ![r] = "closed"]
    /\ response' = [response EXCEPT ![r] = OkResponse(Payload(r))]
    /\ pc' = [pc EXCEPT ![r] = "done"]

\* a close that leaves what the transaction wrote in the table
RaiseWithoutRollback(r, exception) ==
    /\ raised' = [raised EXCEPT ![r] = exception]
    /\ table' = table \cup txn[r]
    /\ txn' = [txn EXCEPT ![r] = {}]
    /\ db' = [db EXCEPT ![r] = "closed"]
    /\ response' = [response EXCEPT ![r] = InternalServerError]
    /\ pc' = [pc EXCEPT ![r] = "done"]

\* an exception that leaves the session open, its transaction pending
RaiseWithoutClose(r, exception) ==
    /\ raised' = [raised EXCEPT ![r] = exception]
    /\ table' = table
    /\ txn' = txn
    /\ db' = db
    /\ response' = [response EXCEPT ![r] = InternalServerError]
    /\ pc' = [pc EXCEPT ![r] = "done"]

\* an exception leaves _insert_event: finally closes the session, which
\* rolls its transaction back, and the framework answers 500
Raise(r, exception) ==
    /\ raised' = [raised EXCEPT ![r] = exception]
    /\ table' = table
    /\ txn' = [txn EXCEPT ![r] = {}]
    /\ db' = [db EXCEPT ![r] = "closed"]
    /\ response' = [response EXCEPT ![r] = InternalServerError]
    /\ pc' = [pc EXCEPT ![r] = "done"]

\* a retry that refreshes the stored row instead of leaving it
UpsertRetry(r) ==
    /\ existing' = [existing EXCEPT ![r] = "found"]
    /\ table' = (table \ Lookup(table, Payload(r).event_id))
                    \cup {IngestEvent(Payload(r), "healthkit_bundle", clock)}
    /\ Return(r)
    /\ UNCHANGED <<txn, clock, body, ev, raised>>

\* a retry that is answered differently from the first submission
FlaggedRetry(r) ==
    /\ existing' = [existing EXCEPT ![r] = "found"]
    /\ ret' = [ret EXCEPT ![r] = None]
    /\ db' = [db EXCEPT ![r] = "closed"]
    /\ response' = [response EXCEPT ![r] =
            [OkResponse(Payload(r)) EXCEPT !.content.status = "duplicate"]]
    /\ pc' = [pc EXCEPT ![r] = "done"]
    /\ UNCHANGED <<table, txn, clock, body, ev, raised>>

\* existing = db.get(...) found the row: return  # idempotent retry
IdempotentRetry(r) ==
    /\ existing' = [existing EXCEPT ![r] = "found"]
    /\ Return(r)
    /\ UNCHANGED <<table, txn, clock, body, ev, raised>>

\* the event tagged with the payload's source instead of the route's tag
ConstructEventTaggedBySource(r) ==
    /\ existing' = [existing EXCEPT ![r] = None]
    /\ ev' = [ev EXCEPT ![r] = IngestEvent(Payload(r), Payload(r).source, clock)]
    /\ pc' = [pc EXCEPT ![r] = "flush"]
    /\ UNCHANGED <<table, txn, clock, body, db, ret, raised, response>>

\* existing = db.get(...) found nothing: the IngestEvent is constructed
ConstructEvent(r) ==
    /\ existing' = [existing EXCEPT ![r] = None]
    /\ ev' = [ev EXCEPT ![r] = IngestEvent(Payload(r), "healthkit_bundle", clock)]
    /\ pc' = [pc EXCEPT ![r] = "flush"]
    /\ UNCHANGED <<table, txn, clock, body, db, ret, raised, response>>

\* db.get(IngestEvent, payload.event_id): reads the committed rows
GetExisting(r) ==
    /\ pc[r] = "get"
    /\ \/ Lookup(table, Payload(r).event_id) # {} /\ IdempotentRetry(r)
       \/ Lookup(table, Payload(r).event_id) = {} /\ ConstructEvent(r)

\* db.merge(ev) in place of db.add(ev): the INSERT overwrites a committed row
MergeFlush(r) ==
    /\ pc[r] = "flush"
    /\ table' = (table \ Lookup(table, ev[r].id)) \cup {ev[r]}
    /\ Return(r)
    /\ UNCHANGED <<txn, clock, body, existing, ev, raised>>

\* db.add(ev); db.commit(), first half: the INSERT.  It waits while another
\* transaction holds an uncommitted row with the same key, and fails on a
\* committed one.
Flush(r) ==
    /\ pc[r] = "flush"
    /\ ~PrimaryKey(UNION {txn[q] : q \in Requests \ {r}}, ev[r].id)
    /\ IF PrimaryKey(table, ev[r].id)
       THEN /\ Raise(r, "IntegrityError")
            /\ UNCHANGED <<clock, body, existing, ev, ret>>
       ELSE /\ txn' = [txn EXCEPT ![r] = {ev[r]}]
            /\ pc' = [pc EXCEPT ![r] = "commit"]
            /\ UNCHANGED <<table, clock, body, db, existing, ev, ret, raised, response>>

\* db.commit(), second half: the COMMIT makes the row visible
Commit(r) ==
    /\ pc[r] = "commit"
    /\ table' = table \cup txn[r]
    /\ txn' = [txn EXCEPT ![r] = {}]
    /\ Return(r)
    /\ UNCHANGED <<clock, body, existing, ev, raised>>

\* a storage failure caught and dropped: the request answers as if stored
SwallowedFailure(r) ==
    /\ pc[r] \in {"get", "flush", "commit"}
    /\ txn' = [txn EXCEPT ![r] = {}]
    /\ Return(r)
    /\ UNCHANGED <<table, clock, body, existing, ev, raised>>

\* a storage failure answered by starting the existence check again
RetriedFailure(r) ==
    /\ pc[r] \in {"get", "flush", "commit"}
    /\ txn' = [txn EXCEPT ![r] = {}]
    /\ pc' = [pc EXCEPT ![r] = "get"]
    /\ UNCHANGED <<table, clock, body, db, existing, ev, ret, raised, response>>

\* the connection or the transaction fails at one of the round trips
StorageFailure(r) ==
    /\ pc[r] \in {"get", "flush", "commit"}
    /\ Raise(r, "OperationalError")
    /\ UNCHANGED <<clock, body, existing, ev, ret>>

_insert_event(r) == GetExisting(r) \/ Flush(r) \/ Commit(r) \/ StorageFailure(r)

Tick ==
    /\ clock < MaxClock
    /\ clock' = clock + 1
    /\ UNCHANGED <<table, txn, pc, body, db, existing, ev, ret, raised, response>>

Next ==
    \/ \E r \in Requests, b \in Bodies : ingest_healthkit(r, b)
    \/ \E r \in Requests : GetExisting(r)
    \/ \E r \in Requests : Flush(r)
    \/ \E r \in Requests : Commit(r)
    \/ \E r \in Requests : StorageFailure(r)
    \/ Tick

Spec == Init /\ [][Next]_vars

\* the bodies that differ in what decides how a request proceeds: the
\* event_id, the source, and whether validation passes
RoutingBodies ==
    {BaseBody,
     Body("e2", <<>>, <<>>),
     With(BaseBody, "source", "manual"),
     Without(BaseBody, "event_id")}

FairNext ==
    \/ \E r \in Requests, b \in RoutingBodies : ingest_healthkit(r, b)
    \/ \E r \in Requests : GetExisting(r)
    \/ \E r \in Requests : Flush(r)
    \/ \E r \in Requests : Commit(r)
    \/ \E r \in Requests : StorageFailure(r)
    \/ Tick

\* a request that can take its next step with the database takes it: the
\* server runs every request it accepted and the database answers
FairSpec ==
    /\ Init
    /\ [][FairNext]_vars
    /\ \A r \in Requests :
          WF_vars(GetExisting(r)) /\ WF_vars(Flush(r)) /\ WF_vars(Commit(r))

(* ----------------------------- claims --------------------------------- *)
\* the request's body passed validation and the request has arrived
Accepted(r) == pc[r] # "idle" /\ ValidationErrors(body[r]) = {}

\* the request went through _insert_event and was answered without exception
Answered(r) == pc[r] = "done" /\ raised[r] = None /\ db[r] = "closed"

\* C1: in every reachable state there is at most one stored row for any
\* event_id, also when two requests both pass the existence check before
\* either commits.
C1_AtMostOneRowPerEventId ==
    \A a \in table : \A b \in table : a.id = b.id => a = b

\* two requests with the same event_id both found no row, both ended, and
\* the id is stored
C1_Witness ==
    \E r1 \in Requests : \E r2 \in Requests \ {r1} :
        /\ pc[r1] = "done" /\ pc[r2] = "done"
        /\ existing[r1] = None /\ existing[r2] = None
        /\ ev[r1].id = ev[r2].id
        /\ Cardinality(Lookup(table, ev[r1].id)) = 1

\* C2 (as claimed): every request with a valid healthkit body whose storage
\* did not fail is answered with status "ok", the request that loses the
\* race on the primary key included.
C2_EveryRacingCallerSucceeds ==
    \A r \in Requests :
        (/\ pc[r] = "done"
         /\ Accepted(r)
         /\ Payload(r).source = "healthkit"
         /\ raised[r] # "OperationalError")
            => response[r].content.status = "ok"

\* C3: a step of a request whose submission (same event_id, same payload) is
\* already stored writes nothing: the table is the same after the step, with
\* exactly one row for the event_id (so received_at stays as first assigned).
C3_ResubmissionWritesNothing ==
    [][\A r \in Requests :
          (/\ pc'[r] # pc[r]
           /\ ValidationErrors(body'[r]) = {}
           /\ \E row \in table :
                /\ row.id = IngestPayload(body'[r]).event_id
                /\ row.payload_json = Dumps(IngestPayload(body'[r])))
             => /\ table' = table
                /\ Cardinality(Lookup(table', IngestPayload(body'[r]).event_id)) = 1
      ]_vars

\* the same body was sent twice; the first request stored it, the second
\* found it later (the clock has moved on) and the row has the first's time
C3_Witness ==
    \E r1 \in Requests : \E r2 \in Requests \ {r1} :
        /\ body[r1] = body[r2]
        /\ Answered(r1) /\ Answered(r2)
        /\ existing[r1] = None /\ existing[r2] = "found"
        /\ Lookup(table, ev[r1].id) = {ev[r1]}
        /\ clock > ev[r1].received_at

\* C4: once a row exists no later step changes any of its fields or removes
\* it: every stored row is still stored, unchanged, after every step.
C4_RowsAreImmutable ==
    [][\A row \in table : row \in table']_vars

\* a row is stored and a later request that reused its event_id with a
\* different body has ended
C4_Witness ==
    \E r1 \in Requests : \E r2 \in Requests \ {r1} :
        /\ Answered(r1) /\ existing[r1] = None
        /\ pc[r2] = "done" /\ existing[r2] = "found"
        /\ Payload(r1).event_id = Payload(r2).event_id
        /\ Payload(r1) # Payload(r2)
        /\ ev[r1] \in table

\* C5: whenever a response has status "ok" and stored_event_id e, a row with
\* id e is stored, in that state and in every later one.
C5_AcknowledgedIsStored ==
    \A r \in Requests :
        response[r].content.status = "ok"
            => Lookup(table, response[r].content.stored_event_id) # {}

\* every request has ended, one of them acknowledged and another one failed
C5_Witness ==
    /\ \A r \in Requests : pc[r] = "done"
    /\ \E r \in Requests : response[r].content.status = "ok"
    /\ \E r \in Requests : raised[r] = "OperationalError" /\ existing[r] = None

\* C6: for one submission, the response given when the event_id is already
\* stored is identical to the response given when it was first recorded.
C6_RetryIndistinguishable ==
    \A r1 \in Requests : \A r2 \in Requests :
        (/\ Answered(r1) /\ Answered(r2)
         /\ Payload(r1) = Payload(r2)
         /\ existing[r1] = None
         /\ existing[r2] = "found")
            => response[r1] = response[r2]

\* one request recorded a submission and another found the same submission
\* stored; both were answered
C6_Witness ==
    \E r1 \in Requests : \E r2 \in Requests :
        /\ Answered(r1) /\ Answered(r2)
        /\ Payload(r1) = Payload(r2)
        /\ existing[r1] = None
        /\ existing[r2] = "found"
        /\ response[r2].status_code = 200

\* the body is otherwise well formed and names the source "manual"
ManualBody(b) ==
    /\ "source" \in DOMAIN b
    /\ b["source"] = "manual"
    /\ {"event_id", "sent_at", "device_id"} \subseteq DOMAIN b

\* C7: a submission with source "manual" is answered with an error response
\* when it arrives, before any storage interaction: no session, no existence
\* check, no insert, and nothing of it in the table.
C7_SourceMismatchRejectedBeforeStorage ==
    \A r \in Requests :
        (pc[r] # "idle" /\ ManualBody(body[r]))
            => /\ pc[r] = "done"
               /\ response[r].content.status = "error"
               /\ db[r] = "none"
               /\ existing[r] = "unset"
               /\ txn[r] = {}
               /\ \A row \in table : row.source # "manual"

\* a manual submission was rejected while a row with its event_id is stored
C7_Witness ==
    \E r \in Requests :
        /\ pc[r] = "done"
        /\ ManualBody(body[r])
        /\ response[r].status_code = 200
        /\ Lookup(table, body[r]["event_id"]) # {}

\* the ways a body fails the schema: event_id missing, an unknown field, a
\* source or a metric_type outside its enumeration
Malformed(b) ==
    \/ "event_id" \notin DOMAIN b
    \/ "unknown_field" \in DOMAIN b
    \/ "source" \in DOMAIN b /\ b["source"] \notin {"healthkit", "manual"}
    \/ /\ "daily_metrics" \in DOMAIN b
       /\ \E i \in DOMAIN b["daily_metrics"] :
             b["daily_metrics"][i]["metric_type"] \notin
                {"steps", "active_energy_kcal", "sleep_hours", "body_weight_lbs"}

\* C8: a submission that fails schema validation is rejected when it arrives
\* and never reaches storage: no session, no existence check, no insert, and
\* no stored row carries its content.
C8_InvalidNeverReachesStorage ==
    \A r \in Requests :
        (pc[r] # "idle" /\ Malformed(body[r]))
            => /\ pc[r] = "done"
               /\ response[r].status_code = 422
               /\ db[r] = "none"
               /\ existing[r] = "unset"
               /\ txn[r] = {}
               /\ \A row \in table :
                     /\ row.source \in {"healthkit", "manual"}
                     /\ \A i \in DOMAIN row.payload_json[8][2] :
                           row.payload_json[8][2][i][2][2][2] # "blood_pressure"

\* a submission with metric_type "blood_pressure" was rejected while the
\* table holds a row
C8_Witness ==
    \E r \in Requests :
        /\ pc[r] = "done"
        /\ "event_id" \in DOMAIN body[r]
        /\ Len(body[r]["daily_metrics"]) = 1
        /\ body[r]["daily_metrics"][1]["metric_type"] = "blood_pressure"
        /\ response[r].status_code = 422
        /\ table # {}

\* C9: the step in which a request's storage transaction fails leaves the
\* table as it was and nothing uncommitted behind; the request ends there,
\* with the failure propagated and no "ok" response.
C9_StorageFailurePropagates ==
    [][\A r \in Requests :
          (raised'[r] = "OperationalError" /\ raised[r] # "OperationalError")
             => /\ table' = table
                /\ txn'[r] = {}
                /\ pc'[r] = "done"
                /\ response'[r].status_code = 500
                /\ response'[r].content.status # "ok"
      ]_vars

\* a request failed after its insert, and its event_id is not stored
C9_Witness ==
    \E r \in Requests :
        /\ raised[r] = "OperationalError"
        /\ existing[r] = None
        /\ Lookup(table, ev[r].id) = {}
        /\ response[r].status_code = 500

\* C10 (as claimed): for one submission, the request that inserts the row
\* and the request that finds it present get distinct outcomes, both from
\* record-if-new and in the response.
C10_OutcomeDistinguishesDuplicate ==
    \A r1 \in Requests : \A r2 \in Requests :
        (/\ Answered(r1) /\ Answered(r2)
         /\ Payload(r1) = Payload(r2)
         /\ existing[r1] = None
         /\ existing[r2] = "found")
            => /\ ret[r1] # ret[r2]
               /\ response[r1] # response[r2]

\* C10 (amended): record-if-new returns None whether it inserted the row or
\* found it present, and the response has the fields status, stored_event_id,
\* workouts and metrics with status "ok" in both cases; only the store tells
\* the cases apart: the row of the inserting request is in the table.
C10_OutcomeNotReported ==
    \A r \in Requests :
        Answered(r)
            => /\ ret[r] = None
               /\ DOMAIN response[r].content =
                     {"status", "stored_event_id", "workouts", "metrics"}
               /\ response[r].content.status = "ok"
               /\ existing[r] \in {None, "found"}
               /\ existing[r] = None => ev[r] \in table

\* one request inserted a row, another found its event_id present
C10_Witness ==
    \E r1 \in Requests : \E r2 \in Requests :
        /\ Answered(r1) /\ Answered(r2)
        /\ existing[r1] = None
        /\ existing[r2] = "found"
        /\ ret[r1] = None /\ ret[r2] = None

\* C11: every success response has status "ok", stored_event_id equal to the
\* event_id of the request's submission, workouts equal to the number of its
\* workout records and metrics equal to the number of its daily-metric
\* records, whether the event was newly recorded or already present.
C11_SuccessResponseShape ==
    \A r \in Requests :
        (response[r].status_code = 200 /\ response[r].content.status # "error")
            => /\ response[r].content.status = "ok"
               /\ response[r].content.stored_event_id = body[r]["event_id"]
               /\ response[r].content.workouts = Len(body[r]["workouts"])
               /\ response[r].content.metrics = Len(body[r]["daily_metrics"])

\* one request recorded an event and another found its event_id present;
\* both were answered, and the submissions have different numbers of
\* workouts and metrics
C11_Witness ==
    \E r1 \in Requests : \E r2 \in Requests :
        /\ Answered(r1) /\ existing[r1] = None
        /\ Answered(r2) /\ existing[r2] = "found"
        /\ Len(body[r1]["workouts"]) # Len(body[r1]["daily_metrics"])
        /\ Len(body[r2]["workouts"]) # Len(body[r2]["daily_metrics"])

\* reading a stored payload back: json.loads, null as None
LoadOptional(j) == IF j = <<"null">> THEN <<>> ELSE <<j[2]>>

LoadWorkout(pairs) ==
    [source_workout_id  |-> pairs[1][2][2],
     activity_type      |-> pairs[2][2][2],
     started_at         |-> pairs[3][2][2],
     ended_at           |-> LoadOptional(pairs[4][2]),
     duration_sec       |-> LoadOptional(pairs[5][2]),
     active_energy_kcal |-> LoadOptional(pairs[6][2]),
     distance_m         |-> LoadOptional(pairs[7][2])]

LoadMetric(pairs) ==
    [date        |-> pairs[1][2][2],
     metric_type |-> pairs[2][2][2],
     value       |-> pairs[3][2][2],
     unit        |-> pairs[4][2][2]]

Loads(pairs) ==
    [schema_version |-> pairs[1][2][2],
     event_id       |-> pairs[2][2][2],
     user_id        |-> pairs[3][2][2],
     source         |-> pairs[4][2][2],
     sent_at        |-> pairs[5][2][2],
     device_id      |-> pairs[6][2][2],
     workouts       |-> [i \in DOMAIN pairs[7][2] |-> LoadWorkout(pairs[7][2][i])],
     daily_metrics  |-> [i \in DOMAIN pairs[8][2] |-> LoadMetric(pairs[8][2][i])]]

\* the members of the stored payload are named as the schema declares them
KeysInOrder(pairs, keys) ==
    /\ Len(pairs) = Len(keys)
    /\ \A i \in DOMAIN keys : pairs[i][1] = keys[i]

\* a loaded record agrees with the body it came from: every field the body
\* gives has the body's value, a workout's optional field that the body
\* leaves out is None
SameWorkout(l, w) ==
    /\ \A k \in {"source_workout_id", "activity_type", "started_at"} : l[k] = w[k]
    /\ \A k \in {"ended_at", "duration_sec", "active_energy_kcal", "distance_m"} :
          l[k] = (IF k \in DOMAIN w THEN <<w[k]>> ELSE <<>>)

SameSubmission(l, b) ==
    /\ \A k \in (DOMAIN b) \ {"workouts", "daily_metrics"} : l[k] = b[k]
    /\ Len(l.workouts) = Len(b["workouts"])
    /\ \A i \in DOMAIN l.workouts : SameWorkout(l.workouts[i], b["workouts"][i])
    /\ Len(l.daily_metrics) = Len(b["daily_metrics"])
    /\ \A i \in DOMAIN l.daily_metrics :
          \A k \in DOMAIN b["daily_metrics"][i] :
              l.daily_metrics[i][k] = b["daily_metrics"][i][k]

\* C12: for every submission that was newly recorded, the payload of its
\* stored row reads back as the submission, field for field: the top-level
\* fields, the workouts and the daily metrics in order, and None where an
\* optional field was absent.
C12_PayloadRoundTrip ==
    \A r \in Requests :
        (Answered(r) /\ existing[r] = None)
            => \E row \in table :
                  /\ row.id = body[r]["event_id"]
                  /\ KeysInOrder(row.payload_json,
                        <<"schema_version", "event_id", "user_id", "source",
                          "sent_at", "device_id", "workouts", "daily_metrics">>)
                  /\ SameSubmission(Loads(row.payload_json), body[r])
                  /\ Loads(row.payload_json) = Payload(r)

\* the submission with two workouts (one without its optional fields) and
\* three daily metrics was newly recorded
C12_Witness ==
    \E r \in Requests :
        /\ Answered(r) /\ existing[r] = None
        /\ Len(body[r]["workouts"]) = 2
        /\ Len(body[r]["daily_metrics"]) = 3
        /\ \E row \in table : row.id = body[r]["event_id"]

\* C13 (as claimed): in every success response the workouts and metrics
\* counts are those of the payload of the row stored under stored_event_id,
\* also when the request reused an existing event_id with another payload.
C13_CountsAreOfStoredRow ==
    \A r \in Requests :
        response[r].content.status = "ok"
            => \E row \in Lookup(table, response[r].content.stored_event_id) :
                  /\ Len(row.payload_json[7][2]) = response[r].content.workouts
                  /\ Len(row.payload_json[8][2]) = response[r].content.metrics

\* C14: the row created by a request that found no row for its event_id and
\* committed has id = event_id, user_id, source and schema_version of the
\* submission, the event_type of the route, and the received_at that was
\* assigned when the row was constructed; it is the only row of that id.
C14_CreatedRowFields ==
    \A r \in Requests :
        (Answered(r) /\ existing[r] = None)
            => /\ Cardinality(Lookup(table, body[r]["event_id"])) = 1
               /\ \A row \in Lookup(table, body[r]["event_id"]) :
                     /\ row.id = body[r]["event_id"]
                     /\ row.user_id = Get(body[r], "user_id", "matt")
                     /\ row.source = Get(body[r], "source", "healthkit")
                     /\ row.schema_version = Str(Get(body[r], "schema_version", 1))
                     /\ row.event_type = "healthkit_bundle"
                     /\ row.received_at = ev[r].received_at
                     /\ row.received_at \in 0..clock

\* a submission that names its user and schema version was recorded, and
\* the clock has moved on since
C14_Witness ==
    \E r \in Requests :
        /\ Answered(r) /\ existing[r] = None
        /\ "user_id" \in DOMAIN body[r]
        /\ body[r]["user_id"] = "ann"
        /\ body[r]["schema_version"] = 2
        /\ ev[r] \in table
        /\ clock > ev[r].received_at

\* the stages of a request, in the order _insert_event goes through them
Stage(p) == CASE p = "idle" -> 0 [] p = "get" -> 1 [] p = "flush" -> 2
              [] p = "commit" -> 3 [] p = "done" -> 4

\* C15: no silent retry.  Every step either leaves a request alone or moves
\* it to a later stage, so a request makes at most one existence check and
\* at most one insert attempt; the step in which a failure is raised ends
\* the request, and an ended request takes no further step.
C15_NoSilentRetry ==
    [][\A r \in Requests :
          /\ Stage(pc'[r]) >= Stage(pc[r])
          /\ pc'[r] = pc[r] =>
                /\ existing'[r] = existing[r]
                /\ txn'[r] = txn[r]
                /\ ev'[r] = ev[r]
                /\ raised'[r] = raised[r]
                /\ response'[r] = response[r]
          /\ raised'[r] # None => pc'[r] = "done" /\ txn'[r] = {}
      ]_vars

\* a request's storage failed after its existence check, and the request
\* has ended with nothing inserted
C15_Witness ==
    \E r \in Requests :
        /\ pc[r] = "done"
        /\ raised[r] = "OperationalError"
        /\ existing[r] = None
        /\ txn[r] = {}
        /\ response[r].status_code = 500

\* the outcomes a request has ended with: acknowledged, answered with an
\* error, or a storage exception propagated
Outcomes(r) ==
    {o \in {"success", "error", "failure"} :
        \/ o = "success" /\ response[r].content.status = "ok"
        \/ o = "error" /\ \/ response[r].content.status = "error"
                          \/ response[r].status_code = 422
        \/ o = "failure" /\ response[r].status_code = 500
                         /\ raised[r] \in {"OperationalError", "IntegrityError"}}

\* C16: under fair scheduling every request that has arrived eventually ends
\* with exactly one outcome, whatever the other requests do; a request that
\* waits on another's uncommitted insert does not wait forever.
C16_EveryRequestEnds ==
    \A r \in Requests :
        (pc[r] # "idle") ~> (pc[r] = "done" /\ Cardinality(Outcomes(r)) = 1)

\* a request's insert is waiting on the uncommitted row of another request
C16_Witness ==
    \E r1 \in Requests : \E r2 \in Requests \ {r1} :
        /\ pc[r1] = "commit"
        /\ pc[r2] = "flush"
        /\ ev[r2].id = ev[r1].id
        /\ txn[r1] = {ev[r1]}
        /\ ~ENABLED Flush(r2)

\* the body is valid and names the healthkit source, or leaves it out
HealthkitBody(b) ==
    /\ ValidationErrors(b) = {}
    /\ "source" \in DOMAIN b => b["source"] = "healthkit"

\* C17: requests with different event_ids do not interfere.  A request with a
\* valid submission whose event_id no other request carries, and whose
\* storage did not fail, is acknowledged and its event is stored; the row,
\* received_at aside, is determined by the submission alone, whatever the
\* order and interleaving of the requests.
C17_DistinctIdsDoNotInterfere ==
    \A r \in Requests :
        (/\ pc[r] = "done"
         /\ HealthkitBody(body[r])
         /\ raised[r] # "OperationalError"
         /\ \A q \in Requests \ {r} :
               \/ "event_id" \notin DOMAIN body[q]
               \/ body[q]["event_id"] # body[r]["event_id"])
            => /\ response[r].content.status = "ok"
               /\ {Without(row, "received_at") : row \in Lookup(table, body[r]["event_id"])}
                     = {Without(IngestEvent(Payload(r), "healthkit_bundle", 0), "received_at")}

\* two requests with different event_ids each recorded their event
C17_Witness ==
    \E r1 \in Requests : \E r2 \in Requests \ {r1} :
        /\ Answered(r1) /\ Answered(r2)
        /\ existing[r1] = None /\ existing[r2] = None
        /\ body[r1]["event_id"] # body[r2]["event_id"]
        /\ Cardinality(table) = 2

\* C18: every row, stored or inserted and not yet committed, has source
\* "healthkit" and event_type "healthkit_bundle".
C18_OnlyHealthkitRows ==
    \A row \in table \cup UNION {txn[r] : r \in Requests} :
        /\ row.source = "healthkit"
        /\ row.event_type = "healthkit_bundle"

\* a submission that leaves its source out was recorded
C18_Witness ==
    \E r \in Requests :
        /\ pc[r] = "done"
        /\ "event_id" \in DOMAIN body[r]
        /\ "source" \notin DOMAIN body[r]
        /\ existing[r] = None
        /\ \E row \in table : row.id = body[r]["event_id"] /\ row.source = "healthkit"

====
